---- MODULE Spec2Model ----
(***************************************************************************)
(* Per-sweep update pipeline of the continuous-time cluster Monte Carlo    *)
(* engine declared in update.h: remove_vertices,                           *)
(* remove_only_fixed_vertices, insert_vertices, swapping_graphs,           *)
(* clustering and flip_cluster acting on one world_line.                   *)
(*                                                                         *)
(* update.h carries the contract of every operation in its documentation   *)
(* comments; the bodies (update.c) and the data types (dtype.h) are not    *)
(* part of the sources, so the parts the comments leave open (the model's  *)
(* bond table, the linking table, the insertion rule, the union-find) are  *)
(* taken from the written specification.                                   *)
(***************************************************************************)
EXTENDS Integers, Sequences, FiniteSets, TLC

\* ---------------------------------------------------------------- bounds
\* sites of the model (one bond family of six per neighbouring pair)
NSite == 2
\* candidate and vertex times are drawn from 1..MaxTime
MaxTime == 2
\* candidates sampled by one insert_vertices
MaxCand == 2
\* an insertion is explored only while count + candidates <= MaxLen
MaxLen == 2
\* flip_cluster runs MaxSweeps times; the stages before it once more
MaxSweeps == 1
\* capacity of the world line after construction
InitLength == 1

\* ------------------------------------------------- model (read-only input)
\* legs per vertex slot in the cluster/weight arrays: two sites, before/after
MaxLeg == 4

Sites == 1..NSite
NPair == NSite - 1
NBond == 6 * NPair + 2 * NSite
Bonds == 1..NBond

\* bond subtype 1..8: six subtypes per site pair, then one subtype-7 bond
\* per site, then one subtype-8 bond per site (offset by the site count)
BondType(b) ==
  IF b <= 6 * NPair THEN ((b - 1) % 6) + 1
  ELSE IF b <= 6 * NPair + NSite THEN 7 ELSE 8

BondSites(b) ==
  IF b <= 6 * NPair THEN <<((b - 1) \div 6) + 1, ((b - 1) \div 6) + 2>>
  ELSE IF b <= 6 * NPair + NSite THEN <<b - 6 * NPair>>
  ELSE <<b - 6 * NPair - NSite>>

BondNspin(b) == Len(BondSites(b))

\* event kind of a vertex: two-site bonds are infections, one-site recoveries
IsInfection(v) == BondType(v.bond) <= 6
IsRecovery(v) == BondType(v.bond) >= 7

\* insertion rule: is a diagonal vertex of this bond valid on states s
\* (s is the tuple of the current states of the bond's sites)
InsertRule(b, s) ==
  CASE BondType(b) \in {1, 3, 5} -> s[1] = 1
    [] BondType(b) \in {2, 4, 6} -> s[2] = 1
    [] BondType(b) = 7 -> s[1] = 1
    [] OTHER -> s[1] = 0

\* linking table: pairs of legs of one vertex joined by the bond subtype
\* (legs 1..h are the incoming legs, h+1..2h the outgoing legs)
LinkRule(t) ==
  CASE t = 1 -> <<<<1, 3>>, <<2, 4>>>>
    [] t = 2 -> <<<<1, 3>>, <<2, 4>>>>
    [] t = 3 -> <<<<1, 3>>>>
    [] t = 4 -> <<<<2, 4>>>>
    [] t = 5 -> <<<<1, 2>>, <<1, 3>>, <<1, 4>>>>
    [] t = 6 -> <<<<1, 2>>, <<1, 3>>, <<1, 4>>>>
    [] t = 7 -> <<>>
    [] OTHER -> <<<<1, 2>>>>

\* weight contributed by a vertex of this subtype to the cluster of its legs
LinkWeight(t) == IF t \in {2, 4, 6, 8} THEN 1 ELSE 0

\* ------------------------------------------------------------------ state
VARIABLES
  flag,        \* active-buffer selector: TRUE selects sequenceA
  sequenceA,   \* vertex buffer A (the entries written by the last writer)
  sequenceB,   \* vertex buffer B
  nvertices,   \* number of vertices of the active sequence
  length,      \* capacity of the world line (both buffers, cluster, weight)
  istate,      \* per-site initial state
  pstate,      \* per-site final (projected) state
  cluster,     \* union-find parent of every leg id
  weight,      \* weight of every leg id (meaningful at roots)
  ninfection,  \* process-wide infection counter
  nrecover,    \* process-wide recovery counter
  pc,          \* the operation that completed last
  nsweep,      \* completed sweeps
  flag0,       \* value of flag when the current sweep started
  cand,        \* candidates offered to the last insert_vertices
  ndraws       \* random decisions taken by the last flip_cluster

vars == <<flag, sequenceA, sequenceB, nvertices, length, istate, pstate,
          cluster, weight, ninfection, nrecover, pc, nsweep, flag0, cand,
          ndraws>>

Active == IF flag THEN sequenceA ELSE sequenceB
Inactive == IF flag THEN sequenceB ELSE sequenceA

\* ---------------------------------------------------------------- helpers
Max(a, b) == IF a >= b THEN a ELSE b

\* does any leg of v change state across the vertex
Changes(v) == \E j \in 1..v.hNspin : v.state[j] # v.state[j + v.hNspin]

LegId(i, j) == (i - 1) * MaxLeg + j

\* legs of the first n vertices of seq
Legs(seq, n) == UNION {{LegId(i, j) : j \in 1..(2 * seq[i].hNspin)} : i \in 1..n}

RECURSIVE Root(_, _)
Root(c, id) == IF c[id] = id THEN id ELSE Root(c, c[id])

\* number of infection (or, with infection FALSE, recovery) vertices of seq
RECURSIVE CountKind(_, _, _)
CountKind(seq, i, infection) ==
  IF i > Len(seq) THEN 0
  ELSE (IF (infection /\ IsInfection(seq[i])) \/ (~infection /\ IsRecovery(seq[i]))
        THEN 1 ELSE 0) + CountKind(seq, i + 1, infection)

\* ------------------------------------------------------------------- Init
Init ==
  /\ flag \in BOOLEAN
  /\ sequenceA = <<>>
  /\ sequenceB = <<>>
  /\ nvertices = 0
  /\ length = InitLength
  /\ istate \in [Sites -> {0, 1}]
  /\ pstate = istate
  /\ cluster = [id \in 1..(InitLength * MaxLeg) |-> id]
  /\ weight = [id \in 1..(InitLength * MaxLeg) |-> 0]
  /\ ninfection = 0
  /\ nrecover = 0
  /\ pc = "init"
  /\ nsweep = 0
  /\ flag0 = flag
  /\ cand = <<>>
  /\ ndraws = 0

\* (variant) the flag is left as it was
NextFlag_keep == flag

\* the active-sequence flag after a stage that writes the other buffer
NextFlag == ~flag

\* the destination buffer receives out and becomes the active buffer
WriteOther(out) ==
  /\ sequenceA' = IF flag THEN sequenceA ELSE out
  /\ sequenceB' = IF flag THEN out ELSE sequenceB
  /\ nvertices' = Len(out)
  /\ flag' = NextFlag

\* -------------------------------------------------------- remove_vertices
\* (variant) only the first spin of the vertex is compared
RemoveKeep_firstSpin(v) == v.state[1] # v.state[1 + v.hNspin]

\* a vertex is retained iff it changes the state of at least one spin
RemoveKeep(v) == Changes(v)

RECURSIVE RemoveScan(_, _, _)
RemoveScan(seq, i, out) ==
  IF i > Len(seq) THEN out
  ELSE RemoveScan(seq, i + 1,
                  IF RemoveKeep(seq[i]) THEN Append(out, seq[i]) ELSE out)

\* (variant) every scanned vertex is counted
Counted_scanned(src, out) == src

\* the vertices the counters are advanced by: the retained ones
Counted(src, out) == out

remove_vertices ==
  /\ pc \in {"init", "flip_cluster"}
  /\ LET out == RemoveScan(Active, 1, <<>>)
     IN /\ WriteOther(out)
        /\ ninfection' = ninfection + CountKind(Counted(Active, out), 1, TRUE)
        /\ nrecover' = nrecover + CountKind(Counted(Active, out), 1, FALSE)
  /\ flag0' = flag
  /\ pc' = "remove_vertices"
  /\ UNCHANGED <<length, istate, pstate, cluster, weight, nsweep, cand, ndraws>>

\* --------------------------------------------- remove_only_fixed_vertices
\* a leg lies in a dynamic cluster when the weight of its root is nonzero
InDynamicCluster(i, v) ==
  \E j \in 1..(2 * v.hNspin) : weight[Root(cluster, LegId(i, j))] # 0

\* (variant) cluster membership is not looked at
FixedKeep_changed(i, v) == Changes(v)

FixedKeep(i, v) == Changes(v) \/ InDynamicCluster(i, v)

RECURSIVE FixedScan(_, _, _)
FixedScan(seq, i, out) ==
  IF i > Len(seq) THEN out
  ELSE FixedScan(seq, i + 1,
                 IF FixedKeep(i, seq[i]) THEN Append(out, seq[i]) ELSE out)

remove_only_fixed_vertices ==
  /\ pc = "flip_cluster"
  /\ LET out == FixedScan(Active, 1, <<>>)
     IN /\ WriteOther(out)
        /\ ninfection' = ninfection + CountKind(Counted(Active, out), 1, TRUE)
        /\ nrecover' = nrecover + CountKind(Counted(Active, out), 1, FALSE)
  /\ flag0' = flag
  /\ pc' = "remove_only_fixed_vertices"
  /\ UNCHANGED <<length, istate, pstate, cluster, weight, nsweep, cand, ndraws>>

\* -------------------------------------------------------- insert_vertices
\* working state after vertex v: the sites of v take its outgoing states
UpdateState(ws, v) ==
  [s \in Sites |->
     IF \E j \in 1..v.hNspin : BondSites(v.bond)[j] = s
     THEN v.state[(CHOOSE j \in 1..v.hNspin : BondSites(v.bond)[j] = s) + v.hNspin]
     ELSE ws[s]]

\* states of the sites of bond b under the working state
SiteStates(b, ws) == [j \in 1..BondNspin(b) |-> ws[BondSites(b)[j]]]

\* (variant) the new vertex takes the initial states, not the working state
NewVertex_initial(tau, b, ws) ==
  [tau |-> tau, bond |-> b, hNspin |-> BondNspin(b),
   state |-> [j \in 1..(2 * BondNspin(b)) |->
                istate[BondSites(b)[((j - 1) % BondNspin(b)) + 1]]]]

\* the diagonal vertex inserted for bond b at time tau
NewVertex(tau, b, ws) ==
  [tau |-> tau, bond |-> b, hNspin |-> BondNspin(b),
   state |-> [j \in 1..(2 * BondNspin(b)) |->
                ws[BondSites(b)[((j - 1) % BondNspin(b)) + 1]]]]

\* (variant) the comparison of the two times is reversed
ComesFirst_reversed(v, c) == v.tau > c.tau

\* a pre-existing vertex is copied before the candidate c is looked at
ComesFirst(v, c) == v.tau <= c.tau

RECURSIVE InsertMerge(_, _, _, _, _, _)
InsertMerge(src, i, c, k, ws, out) ==
  IF k > Len(c)
  THEN IF i > Len(src) THEN out
       ELSE InsertMerge(src, i + 1, c, k, UpdateState(ws, src[i]),
                        Append(out, src[i]))
  ELSE IF i <= Len(src) /\ ComesFirst(src[i], c[k])
       THEN InsertMerge(src, i + 1, c, k, UpdateState(ws, src[i]),
                        Append(out, src[i]))
       ELSE InsertMerge(src, i, c, k + 1, ws,
                        IF InsertRule(c[k].bond, SiteStates(c[k].bond, ws))
                        THEN Append(out, NewVertex(c[k].tau, c[k].bond, ws))
                        ELSE out)

\* the sampled candidates: strictly increasing times, one bond each
CandSeqs ==
  {c \in UNION {[1..n -> [tau : 1..MaxTime, bond : Bonds]] : n \in 0..MaxCand} :
     \A k \in 1..(Len(c) - 1) : c[k].tau < c[k + 1].tau}

\* (variant) the capacity is not adjusted
NewLength_keep(n) == length

\* capacity after the adjustment for n more vertices
NewLength(n) == Max(length, nvertices + n)

\* arrays of the world line resized to capacity len
Resize(arr, len) ==
  [id \in 1..(len * MaxLeg) |-> IF id \in DOMAIN arr THEN arr[id] ELSE 0]

insert_vertices ==
  /\ pc \in {"remove_vertices", "remove_only_fixed_vertices"}
  /\ \E c \in CandSeqs :
       /\ nvertices + Len(c) <= MaxLen
       /\ length' = NewLength(Len(c))
       /\ cluster' = Resize(cluster, NewLength(Len(c)))
       /\ weight' = Resize(weight, NewLength(Len(c)))
       /\ WriteOther(InsertMerge(Active, 1, c, 1, istate, <<>>))
       /\ cand' = c
  /\ pc' = "insert_vertices"
  /\ UNCHANGED <<istate, pstate, ninfection, nrecover, nsweep, flag0, ndraws>>

\* -------------------------------------------------------- swapping_graphs
\* (variant) a two-site bond is redrawn among all six subtypes
SwapBond_anyFamily(b, r) ==
  CASE BondType(b) <= 6 -> b - BondType(b) + 1 + ((BondType(b) + r) % 6)
    [] BondType(b) = 7 -> IF r % 2 = 0 THEN b + NSite ELSE b
    [] OTHER -> IF r % 2 = 0 THEN b - NSite ELSE b

\* the bond that replaces b when the uniform random value falls in the
\* r-th third of its range (the coin of subtypes 7 and 8 is the parity of r)
SwapBond(b, r) ==
  CASE BondType(b) \in {1, 3, 5} -> b - BondType(b) + 1 + 2 * (r % 3)
    [] BondType(b) \in {2, 4, 6} -> b - BondType(b) + 2 + 2 * (r % 3)
    [] BondType(b) = 7 -> IF r % 2 = 0 THEN b + NSite ELSE b
    [] OTHER -> IF r % 2 = 0 THEN b - NSite ELSE b

SwapOf(seq, r) == [i \in 1..Len(seq) |-> [seq[i] EXCEPT !.bond = SwapBond(@, r[i])]]

swapping_graphs ==
  /\ pc \in {"insert_vertices", "swapping_graphs"}
  /\ \E r \in [1..nvertices -> 0..2] :
       /\ sequenceA' = IF flag THEN SwapOf(sequenceA, r) ELSE sequenceA
       /\ sequenceB' = IF flag THEN sequenceB ELSE SwapOf(sequenceB, r)
  /\ pc' = "swapping_graphs"
  /\ UNCHANGED <<flag, nvertices, length, istate, pstate, cluster, weight,
                 ninfection, nrecover, nsweep, flag0, cand, ndraws>>

\* ------------------------------------------------------------- clustering
\* the arrays with the entries of the first n vertices reset to singletons
ResetClusters(n) ==
  [c |-> [id \in DOMAIN cluster |-> IF id <= n * MaxLeg THEN id ELSE cluster[id]],
   w |-> [id \in DOMAIN weight |-> IF id <= n * MaxLeg THEN 0 ELSE weight[id]]]

\* join the clusters of legs a and b: the root of a is hung under the root
\* of b, which takes over the weight of both
Union(cw, a, b) ==
  LET ra == Root(cw.c, a)
      rb == Root(cw.c, b)
  IN IF ra = rb THEN cw
     ELSE [c |-> [cw.c EXCEPT ![ra] = rb],
           w |-> [cw.w EXCEPT ![rb] = cw.w[ra] + cw.w[rb]]]

\* incoming legs of vertex i joined to the last leg seen on their sites
RECURSIVE LinkLast(_, _, _, _, _)
LinkLast(cw, last, i, v, j) ==
  IF j > v.hNspin THEN cw
  ELSE LinkLast(IF last[BondSites(v.bond)[j]] # 0
                THEN Union(cw, LegId(i, j), last[BondSites(v.bond)[j]])
                ELSE cw,
                last, i, v, j + 1)

\* legs of vertex i joined by the linking pattern of its bond subtype
RECURSIVE LinkInner(_, _, _, _)
LinkInner(cw, i, rule, k) ==
  IF k > Len(rule) THEN cw
  ELSE LinkInner(Union(cw, LegId(i, rule[k][1]), LegId(i, rule[k][2])),
                 i, rule, k + 1)

AddWeight(cw, id, x) ==
  [cw EXCEPT !.w[Root(cw.c, id)] = @ + x]

\* (variant) the outgoing leg is taken at the offset of a two-site vertex
LastAfter_fixedOffset(last, i, v) ==
  [s \in Sites |->
     IF \E j \in 1..v.hNspin : BondSites(v.bond)[j] = s
     THEN LegId(i, (CHOOSE j \in 1..v.hNspin : BondSites(v.bond)[j] = s)
                     + (MaxLeg \div 2))
     ELSE last[s]]

\* last leg seen on every site once vertex i is passed: its outgoing legs
LastAfter(last, i, v) ==
  [s \in Sites |->
     IF \E j \in 1..v.hNspin : BondSites(v.bond)[j] = s
     THEN LegId(i, (CHOOSE j \in 1..v.hNspin : BondSites(v.bond)[j] = s) + v.hNspin)
     ELSE last[s]]

RECURSIVE ClusterScan(_, _, _, _)
ClusterScan(seq, i, last, cw) ==
  IF i > Len(seq) THEN cw
  ELSE LET v == seq[i]
           t == BondType(v.bond)
           c1 == LinkLast(cw, last, i, v, 1)
           c2 == LinkInner(c1, i, LinkRule(t), 1)
           c3 == AddWeight(c2, LegId(i, 1), LinkWeight(t))
       IN ClusterScan(seq, i + 1, LastAfter(last, i, v), c3)

\* the sequence the scan runs over: the active one
ClusterInput == Active

clustering ==
  /\ pc = "swapping_graphs"
  /\ LET cw == ClusterScan(ClusterInput, 1, [s \in Sites |-> 0],
                           ResetClusters(nvertices))
     IN /\ cluster' = cw.c
        /\ weight' = cw.w
  /\ pc' = "clustering"
  /\ UNCHANGED <<flag, sequenceA, sequenceB, nvertices, length, istate, pstate,
                 ninfection, nrecover, nsweep, flag0, cand, ndraws>>

\* ----------------------------------------------------------- flip_cluster
\* (variant) every leg takes a decision of its own
DecisionKey_leg(id) == id

\* the leg whose random decision applies to leg id: the root of its cluster
DecisionKey(id) == Root(cluster, id)

Decision(dec, id) == dec[DecisionKey(id)]

\* the legs a decision is drawn for
DecisionKeys(seq) == {DecisionKey(id) : id \in Legs(seq, Len(seq))}

FlipOf(seq, dec) ==
  [i \in 1..Len(seq) |->
     [seq[i] EXCEPT !.state =
        [j \in 1..(2 * seq[i].hNspin) |->
           IF Decision(dec, LegId(i, j)) THEN 1 - seq[i].state[j]
           ELSE seq[i].state[j]]]]

Touches(v, s) == \E j \in 1..v.hNspin : BondSites(v.bond)[j] = s
SlotOf(v, s) == CHOOSE j \in 1..v.hNspin : BondSites(v.bond)[j] = s
Touched(seq, s) == \E i \in 1..Len(seq) : Touches(seq[i], s)
FirstOn(seq, s) == CHOOSE i \in 1..Len(seq) :
  Touches(seq[i], s) /\ \A k \in 1..(i - 1) : ~Touches(seq[k], s)
LastOn(seq, s) == CHOOSE i \in 1..Len(seq) :
  Touches(seq[i], s) /\ \A k \in (i + 1)..Len(seq) : ~Touches(seq[k], s)

flip_cluster ==
  /\ pc = "clustering"
  /\ nsweep < MaxSweeps
  /\ \E dec \in [DecisionKeys(Active) -> BOOLEAN] :
     \E rnd \in [{s \in Sites : ~Touched(Active, s)} -> {0, 1}] :
       LET out == FlipOf(Active, dec)
       IN /\ sequenceA' = IF flag THEN out ELSE sequenceA
          /\ sequenceB' = IF flag THEN sequenceB ELSE out
          /\ istate' = [s \in Sites |->
                IF Touched(out, s)
                THEN out[FirstOn(out, s)].state[SlotOf(out[FirstOn(out, s)], s)]
                ELSE rnd[s]]
          /\ pstate' = [s \in Sites |->
                IF Touched(out, s)
                THEN out[LastOn(out, s)].state[SlotOf(out[LastOn(out, s)], s)
                                               + out[LastOn(out, s)].hNspin]
                ELSE rnd[s]]
          /\ ndraws' = Cardinality(DecisionKeys(Active))
  /\ nsweep' = nsweep + 1
  /\ pc' = "flip_cluster"
  /\ UNCHANGED <<flag, nvertices, length, cluster, weight, ninfection,
                 nrecover, flag0, cand>>

\* ------------------------------------------------------------------- Spec
Next ==
  \/ remove_vertices
  \/ remove_only_fixed_vertices
  \/ insert_vertices
  \/ swapping_graphs
  \/ clustering
  \/ flip_cluster

Spec == Init /\ [][Next]_vars


\* ------------------------------------------------- vocabulary of the claims
\* v leaves every one of its sites in the state it found it in
NoOp(v) == \A j \in 1..v.hNspin : v.state[j] = v.state[j + v.hNspin]

\* the entries of seq at the positions in S, in their order in seq
RECURSIVE Pick(_, _, _)
Pick(seq, S, i) ==
  IF i > Len(seq) THEN <<>>
  ELSE (IF i \in S THEN <<seq[i]>> ELSE <<>>) \o Pick(seq, S, i + 1)

StrictlyIncreasing(seq) == \A i \in 1..(Len(seq) - 1) : seq[i].tau < seq[i + 1].tau
NonDecreasing(seq) == \A i \in 1..(Len(seq) - 1) : seq[i].tau <= seq[i + 1].tau

\* state of site s after vertex v, given the state ws before it
SiteAfter(ws, v, s) ==
  IF \E j \in 1..v.hNspin : BondSites(v.bond)[j] = s
  THEN v.state[(CHOOSE j \in 1..v.hNspin : BondSites(v.bond)[j] = s) + v.hNspin]
  ELSE ws[s]

\* site states carried to time tau by the vertices of seq at or before tau
RECURSIVE StateAt(_, _, _, _)
StateAt(seq, i, ws, tau) ==
  IF i > Len(seq) \/ seq[i].tau > tau THEN ws
  ELSE StateAt(seq, i + 1, [s \in Sites |-> SiteAfter(ws, seq[i], s)], tau)

\* every incoming leg carries the state its site was left in
RECURSIVE Continuous(_, _, _)
Continuous(seq, i, ws) ==
  IF i > Len(seq) THEN TRUE
  ELSE /\ \A j \in 1..seq[i].hNspin : seq[i].state[j] = ws[BondSites(seq[i].bond)[j]]
       /\ Continuous(seq, i + 1, [s \in Sites |-> SiteAfter(ws, seq[i], s)])

\* the root the parent pointers of c lead to from id within n steps, 0 if none
RECURSIVE ChainRoot(_, _, _)
ChainRoot(c, id, n) ==
  IF id \notin DOMAIN c THEN 0
  ELSE IF c[id] = id THEN id
  ELSE IF n = 0 THEN 0
  ELSE ChainRoot(c, c[id], n - 1)

\* (vertex, slot) pairs of the legs of seq, and their ids
LegPairs(seq) == {p \in (1..Len(seq)) \X (1..MaxLeg) : p[2] <= 2 * seq[p[1]].hNspin}
IdOf(p) == (p[1] - 1) * MaxLeg + p[2]
RootOf(p) == ChainRoot(cluster, IdOf(p), Len(Active) * MaxLeg)

Writers == {"remove_vertices", "remove_only_fixed_vertices", "insert_vertices"}
InPlace == {"swapping_graphs", "clustering", "flip_cluster"}

\* ------------------------------------------------------------------ claims

\* C1: after remove_vertices the active sequence is exactly the subsequence
\* of the input (still held by the other buffer) made of the vertices with at
\* least one leg whose state differs across the vertex, in their order.
C1_RemoveKeepsStateChanging ==
  pc = "remove_vertices" =>
    Active = Pick(Inactive, {i \in 1..Len(Inactive) : ~NoOp(Inactive[i])}, 1)

C1_Witness ==
  /\ pc = "remove_vertices"
  /\ Len(Inactive) = 2
  /\ Len(Active) = 1
  /\ Active[1] = Inactive[2]

\* the output of insert_vertices is its input (the other buffer) with the
\* accepted candidates merged in: some positions hold the input in its
\* order, the others hold, in candidate order, one diagonal vertex for each
\* candidate the insertion rule accepts in the state carried to its time
MergedWithAccepted ==
  LET accepted == {k \in 1..Len(cand) :
                     InsertRule(cand[k].bond,
                       [j \in 1..BondNspin(cand[k].bond) |->
                          StateAt(Inactive, 1, istate, cand[k].tau)
                            [BondSites(cand[k].bond)[j]]])}
      fresh == [k \in 1..Len(cand) |->
                  [tau |-> cand[k].tau, bond |-> cand[k].bond,
                   hNspin |-> BondNspin(cand[k].bond),
                   state |-> [j \in 1..(2 * BondNspin(cand[k].bond)) |->
                      StateAt(Inactive, 1, istate, cand[k].tau)
                        [BondSites(cand[k].bond)[((j - 1) % BondNspin(cand[k].bond)) + 1]]]]]
  IN \E S \in SUBSET (1..Len(Active)) :
       /\ Pick(Active, S, 1) = Inactive
       /\ Pick(Active, (1..Len(Active)) \ S, 1) = Pick(fresh, accepted, 1)

\* no candidate time of the last insertion is the time of an input vertex
NoCollision ==
  \A k \in 1..Len(cand) : \A i \in 1..Len(Inactive) : cand[k].tau # Inactive[i].tau

C3_StateContinuity == Continuous(Active, 1, istate)

C3_Witness ==
  /\ pc = "insert_vertices"
  /\ Len(Inactive) = 1
  /\ Len(Active) = 2
  /\ Active[1] = Inactive[1]
  /\ ~NoOp(Active[1])
  /\ \E s \in Sites : /\ \E j \in 1..Active[1].hNspin : BondSites(Active[1].bond)[j] = s
                      /\ \E j \in 1..Active[2].hNspin : BondSites(Active[2].bond)[j] = s
                      /\ SiteAfter(istate, Active[1], s) # istate[s]

\* C4: a swapping_graphs step keeps the vertex count, the flag, both
\* buffers' lengths, and every vertex's time and leg states; a bond only
\* moves inside its family {1,3,5} or {2,4,6}, and a subtype 7 (8) bond
\* either stays or moves to the subtype 8 (7) bond NSite above (below) it.
C4_SwapOnlyRelabelsBonds ==
  [][pc' = "swapping_graphs" =>
       /\ nvertices' = nvertices
       /\ flag' = flag
       /\ Inactive' = Inactive
       /\ Len(Active') = Len(Active)
       /\ \A i \in 1..Len(Active) :
            LET old == Active[i]
                new == Active'[i]
                t == BondType(old.bond)
                u == BondType(new.bond)
            IN /\ new.tau = old.tau
               /\ new.hNspin = old.hNspin
               /\ new.state = old.state
               /\ BondSites(new.bond) = BondSites(old.bond)
               /\ t \in {1, 3, 5} => u \in {1, 3, 5}
               /\ t \in {2, 4, 6} => u \in {2, 4, 6}
               /\ t = 7 => new.bond \in {old.bond, old.bond + NSite}
               /\ t = 8 => new.bond \in {old.bond, old.bond - NSite}
               /\ t \in {7, 8} => u \in {7, 8}
  ]_vars

\* no candidate was accepted, so the active sequence differs from the other
\* buffer only by what swapping_graphs did to it
C4_Witness ==
  /\ pc = "swapping_graphs"
  /\ Len(Active) = 2
  /\ Len(Inactive) = 2
  /\ \A i \in 1..2 : /\ Active[i].tau = Inactive[i].tau
                     /\ Active[i].state = Inactive[i].state
  /\ BondType(Inactive[1].bond) = 7
  /\ Active[1].bond = Inactive[1].bond + NSite
  /\ BondType(Inactive[2].bond) = 3
  /\ BondType(Active[2].bond) = 5

\* C5: a clustering step leaves both buffers, the flag and the count alone,
\* and after it the parent pointers lead from every leg of the active
\* sequence to a root that is itself a leg of the active sequence, so the
\* root classes partition the leg set.
C5_ClusteringPartitionsLegs ==
  /\ [](pc = "clustering" =>
          \A p \in LegPairs(Active) :
            /\ RootOf(p) \in {IdOf(q) : q \in LegPairs(Active)}
            /\ cluster[RootOf(p)] = RootOf(p))
  /\ [][pc' = "clustering" =>
          /\ sequenceA' = sequenceA
          /\ sequenceB' = sequenceB
          /\ flag' = flag
          /\ nvertices' = nvertices]_vars

C5_Witness ==
  /\ pc = "clustering"
  /\ Len(Active) = 2
  /\ \E p, q \in LegPairs(Active) : p[1] = 1 /\ q[1] = 2 /\ RootOf(p) = RootOf(q)
  /\ \E p, q \in LegPairs(Active) : RootOf(p) # RootOf(q)

\* C6: a flip_cluster step inverts or keeps each leg state, takes the same
\* choice for all legs of one cluster, and draws one decision per distinct
\* cluster root.
C6_FlipIsPerCluster ==
  [][pc' = "flip_cluster" =>
       /\ Len(Active') = Len(Active)
       /\ \A p \in LegPairs(Active) :
            /\ Active'[p[1]].state[p[2]] \in
                 {Active[p[1]].state[p[2]], 1 - Active[p[1]].state[p[2]]}
            /\ \A q \in LegPairs(Active) :
                 RootOf(p) = RootOf(q) =>
                   ((Active'[p[1]].state[p[2]] # Active[p[1]].state[p[2]]) <=>
                    (Active'[q[1]].state[q[2]] # Active[q[1]].state[q[2]]))
       /\ ndraws' = Cardinality({RootOf(p) : p \in LegPairs(Active)})
  ]_vars

C6_Witness ==
  /\ pc = "flip_cluster"
  /\ Len(Active) = 2
  /\ ndraws >= 2
  /\ ndraws < Cardinality(LegPairs(Active))
  /\ ~NoOp(Active[1])
  /\ NoOp(Active[2])

C8_CountersFollowRetained ==
  [][/\ (ninfection' # ninfection \/ nrecover' # nrecover) =>
          pc' \in {"remove_vertices", "remove_only_fixed_vertices"}
     /\ pc' = "remove_vertices" =>
          /\ ninfection' = ninfection +
               Cardinality({i \in 1..Len(Active') : BondType(Active'[i].bond) <= 6})
          /\ nrecover' = nrecover +
               Cardinality({i \in 1..Len(Active') : BondType(Active'[i].bond) >= 7})
          /\ (Len(Active) = 1 /\ NoOp(Active[1])) =>
               (Active' = <<>> /\ ninfection' = ninfection /\ nrecover' = nrecover)
     /\ pc' = "insert_vertices" =>
          (ninfection' = ninfection /\ nrecover' = nrecover)
  ]_vars

C8_Witness ==
  /\ pc = "remove_vertices"
  /\ Len(Inactive) = 2
  /\ Len(Active) = 1
  /\ ninfection + nrecover = 1

\* C9: the flag selects one of the two buffers; every removal and insertion
\* step leaves the buffer it read untouched and inverts the flag; the three
\* in-place stages leave the flag and the inactive buffer alone; when a sweep
\* has completed the flag is what it was when the sweep started.
C9_FlagTogglesOncePerWriter ==
  /\ [](flag \in BOOLEAN)
  /\ [](pc = "flip_cluster" => flag = flag0)
  /\ [][/\ pc' \in Writers => (flag' = ~flag /\ Inactive' = Active)
        /\ pc' \in InPlace => (flag' = flag /\ Inactive' = Inactive)]_vars

C9_Witness ==
  /\ pc = "flip_cluster"
  /\ nsweep = 1
  /\ nvertices = 2
  /\ flag = flag0

====
